---- MODULE Spec2Model ----
(***************************************************************************)
(* Model of src/webp/decoder.rs: the WebP container reader WebPDecoder<R>  *)
(* (RIFF envelope check, chunk walk, hand-off of the "VP8 " payload to the *)
(* VP8 bitstream decoder) and the WebpReader / ImageDecoder result side.   *)
(*                                                                         *)
(* A byte is an integer 0..255, a byte stream a sequence of bytes.  A u32  *)
(* is kept as two 16-bit limbs [lo, hi] (value hi * 2^16 + lo), so that    *)
(* the full 32-bit range, its wrap-around included, is computed exactly.   *)
(***************************************************************************)
EXTENDS Integers, Sequences, FiniteSets, TLC

\* ------------------------------------------------------------------ bounds
\* most chunks appended after the envelope of an input stream
MaxChunks == 2
\* most bytes cut off the end of an input stream
MaxCut == 12
\* largest slice handed to WebpReader::read
MaxRead == 2
\* largest buffer handed to read_image
MaxBuf == 5

\* ------------------------------------------------------------- arithmetic
Min(a, b) == IF a < b THEN a ELSE b
Max(a, b) == IF a > b THEN a ELSE b

\* one 16-bit limb holds 0 .. LimbBase - 1
LimbBase == 256 * 256

\* byteorder's LittleEndian::read_u32 of four bytes
FromLE(b) == [lo |-> b[1] + 256 * b[2], hi |-> b[3] + 256 * b[4]]

U32Zero == [lo |-> 0, hi |-> 0]
U32Max == [lo |-> LimbBase - 1, hi |-> LimbBase - 1]

\* len % 2 != 0
IsOdd(len) == len.lo % 2 # 0

\* `len += 1` on a u32.  With overflow checks (debug profile) u32::MAX + 1
\* panics; without them (release profile) it wraps to 0.
AddOne_noinc(len, checks) == [panic |-> FALSE, val |-> len]
AddOne(len, checks) ==
    IF len.lo < LimbBase - 1
    THEN [panic |-> FALSE, val |-> [lo |-> len.lo + 1, hi |-> len.hi]]
    ELSE IF len.hi < LimbBase - 1
    THEN [panic |-> FALSE, val |-> [lo |-> 0, hi |-> len.hi + 1]]
    ELSE IF checks
    THEN [panic |-> TRUE, val |-> len]
    ELSE [panic |-> FALSE, val |-> U32Zero]

\* `len as u64`: zero extension, limb `top` holds the bits from 2^32 up
AsU64(len) == [lo |-> len.lo, hi |-> len.hi, top |-> 0]

\* -------------------------------------------------------------- byte source
\* The reader `r` is a forward-only source: its bytes and how many were consumed.
Remaining(rd) == Len(rd.inner) - rd.pos

\* r.by_ref().take(n).read_to_end(&mut v): the bytes put in v; fewer than n at
\* the end of the source, and that is no error
Take(rd, n) == SubSeq(rd.inner, rd.pos + 1, rd.pos + Min(n, Remaining(rd)))
Advance(rd, n) == [rd EXCEPT !.pos = rd.pos + Min(n, Remaining(rd))]

\* the same for a 64-bit count; every source of the model is shorter than 2^16
TakeCount(rd, n64) ==
    IF n64.top > 0 \/ n64.hi > 0 THEN Remaining(rd) ELSE Min(n64.lo, Remaining(rd))

\* r.read_u32::<LittleEndian>(): read_exact of 4 bytes, UnexpectedEof when
\* fewer remain (the bytes that were there are consumed)
ReadU32(rd) ==
    IF Remaining(rd) >= 4
    THEN [ok |-> TRUE, val |-> FromLE(Take(rd, 4)), r |-> Advance(rd, 4)]
    ELSE [ok |-> FALSE, val |-> U32Zero, r |-> Advance(rd, 4)]

\* ---------------------------------------------------------------------- tags
RIFF == <<82, 73, 70, 70>>
WEBP == <<87, 69, 66, 80>>
VP8 == <<86, 80, 56, 32>>
ALPH == <<65, 76, 80, 72>>
VP8L == <<86, 80, 56, 76>>
ANIM == <<65, 78, 73, 77>>
ANMF == <<65, 78, 77, 70>>

\* --------------------------------------------------------------- error values
IoError == "Err(IoError: UnexpectedEof)"
InvalidRiff == "Err(Decoding: Invalid RIFF signature)"
InvalidWebp == "Err(Decoding: Invalid WEBP signature)"
Unsupported == "Err(Decoding: Unsupported WEBP feature.)"
Vp8Failed == "Err(vp8 decode_frame)"
OverflowPanic == "panic(attempt to add with overflow)"
AssertPanic == "panic(assertion failed)"

\* ------------------------------------------------------------ read_riff_header
\* The three fields are read first, the two signatures compared afterwards.
ReadRiffHeader(rd) ==
    LET riff == Take(rd, 4)
        r1 == Advance(rd, 4)
        size == ReadU32(r1)
        webp == Take(size.r, 4)
        r3 == Advance(size.r, 4)
    IN  IF ~size.ok THEN [err |-> IoError, r |-> size.r]
        ELSE IF riff # RIFF THEN [err |-> InvalidRiff, r |-> r3]
        ELSE IF webp # WEBP THEN [err |-> InvalidWebp, r |-> r3]
        ELSE [err |-> "", r |-> r3]

\* ------------------------------------------------------------- read_vp8_header
IsUnsupported_noanmf(chunk) == chunk \in {ALPH, VP8L, ANIM}
IsUnsupported(chunk) == chunk \in {ALPH, VP8L, ANIM, ANMF}

\* One iteration of the loop.  kind: "return" (Ok(len)), "err", "panic" or
\* "continue" (the next iteration follows).
Vp8HeaderStep(rd, checks) ==
    LET chunk == Take(rd, 4)
        r1 == Advance(rd, 4)
    IN  IF chunk = VP8
        THEN LET l == ReadU32(r1)
             IN  IF l.ok
                 THEN [kind |-> "return", err |-> "", chunk |-> chunk, len |-> l.val, r |-> l.r]
                 ELSE [kind |-> "err", err |-> IoError, chunk |-> chunk, len |-> U32Zero, r |-> l.r]
        ELSE IF IsUnsupported(chunk)
        THEN [kind |-> "err", err |-> Unsupported, chunk |-> chunk, len |-> U32Zero, r |-> r1]
        ELSE LET l == ReadU32(r1)
                 inc == IF IsOdd(l.val) THEN AddOne(l.val, checks)
                        ELSE [panic |-> FALSE, val |-> l.val]
             IN  IF ~l.ok
                 THEN [kind |-> "err", err |-> IoError, chunk |-> chunk, len |-> U32Zero, r |-> l.r]
                 ELSE IF inc.panic
                 THEN [kind |-> "panic", err |-> OverflowPanic, chunk |-> chunk, len |-> l.val, r |-> l.r]
                 ELSE [kind |-> "continue", err |-> "", chunk |-> chunk, len |-> inc.val,
                       r |-> Advance(l.r, TakeCount(l.r, AsU64(inc.val)))]

\* ------------------------------------------------------------------ read_frame
\* the value of Frame's Default: no dimensions, no samples
DefaultFrame == [width |-> 0, height |-> 0, ybuf |-> <<>>]

\* r.by_ref().take(len as u64).read_to_end(&mut framedata): as for every take,
\* fewer than len bytes at the end of the source is no error
ReadFrame(rd, len) ==
    [framedata |-> Take(rd, TakeCount(rd, AsU64(len))),
     r |-> Advance(rd, TakeCount(rd, AsU64(len)))]

\* The frames the VP8 decoder hands back in this model: width and height fit
\* 16 bits and ybuf holds width * height luma samples.
Frames ==
    { [width |-> 2, height |-> 2, ybuf |-> <<128, 128, 128, 128>>],
      [width |-> 1, height |-> 3, ybuf |-> <<1, 2, 3>>],
      [width |-> 0, height |-> 0, ybuf |-> <<>>] }

\* Vp8Decoder::new(Cursor::new(framedata)).decode_frame(): a frame or an error,
\* for every payload (the bitstream decoder is outside this file)
DecodeFrame(data) ==
    { [ok |-> FALSE, frame |-> DefaultFrame] } \cup { [ok |-> TRUE, frame |-> f] : f \in Frames }

\* --------------------------------------------------------------- read_metadata
\* `if !self.have_frame`
NeedsMetadata_always(flag) == TRUE
NeedsMetadata(flag) == ~flag

\* ------------------------------------------------------------------ WebpReader
\* Cursor<Vec<u8>>::read into a slice of k bytes
CursorRead(c, slice) ==
    LET n == Min(Len(slice), Max(0, Len(c.inner) - c.pos))
    IN  [n |-> n,
         buf |-> SubSeq(c.inner, c.pos + 1, c.pos + n) \o SubSeq(slice, n + 1, Len(slice)),
         c |-> [c EXCEPT !.pos = c.pos + n]]

\* Cursor<Vec<u8>>::read_to_end: what is left is appended to the vector
CursorReadToEnd(c, vec) ==
    LET rest == SubSeq(c.inner, Min(c.pos, Len(c.inner)) + 1, Len(c.inner))
    IN  [n |-> Len(rest), buf |-> vec \o rest, c |-> [c EXCEPT !.pos = c.pos + Len(rest)]]

\* `self.0.position() == 0 && buf.is_empty()`
FastPath_nopos(c, vec) == vec = <<>>
FastPath(c, vec) == c.pos = 0 /\ vec = <<>>

\* WebpReader::read_to_end: mem::swap of the caller's vector and the cursor's
WebpReadToEnd(c, vec) ==
    IF FastPath(c, vec)
    THEN [n |-> Len(c.inner), buf |-> c.inner, c |-> [c EXCEPT !.inner = vec]]
    ELSE CursorReadToEnd(c, vec)

\* ---------------------------------------------------------------- ImageDecoder
Dimensions(f) == <<f.width, f.height>>
ColorType == "L8"
BytesPerPixel(ct) == IF ct = "L8" THEN 1 ELSE 0
\* ImageDecoder::total_bytes, the trait's default
TotalBytes(f) == Dimensions(f)[1] * Dimensions(f)[2] * BytesPerPixel(ColorType)

\* read_image: assert_eq! on the length, then copy_from_slice (which itself
\* panics on slices of different lengths)
ReadImage_clamped(f, b) ==
    [ret |-> "Ok(())",
     buf |-> SubSeq(f.ybuf, 1, Min(Len(b), Len(f.ybuf))) \o SubSeq(b, Len(f.ybuf) + 1, Len(b))]
ReadImage(f, b) ==
    IF Len(b) # TotalBytes(f) THEN [ret |-> AssertPanic, buf |-> b]
    ELSE IF Len(b) # Len(f.ybuf) THEN [ret |-> "panic(copy_from_slice)", buf |-> b]
    ELSE [ret |-> "Ok(())", buf |-> f.ybuf]

\* ------------------------------------------------------------------- inputs
\* a tag the walker does not know, and two wrong signatures
JUNK == <<74, 85, 78, 75>>
XIFF == <<88, 73, 70, 70>>
WEBX == <<87, 69, 66, 88>>

LE0 == <<0, 0, 0, 0>>
LE2 == <<2, 0, 0, 0>>
LE4 == <<4, 0, 0, 0>>
LE5 == <<5, 0, 0, 0>>
LEMax == <<255, 255, 255, 255>>

Envelopes == { t1 \o <<30, 0, 0, 0>> \o t2 : t1 \in {RIFF, XIFF}, t2 \in {WEBP, WEBX} }

\* Chunks as they lie in a file: tag, length, payload, and a pad byte after an
\* odd payload.  Skipped payloads hold the bytes of a payload and of a feature
\* tag; a chunk declaring 2^32 - 1 bytes comes without them.
ChunkVariants ==
    { VP8 \o LE0, VP8 \o LE2 \o <<11, 12>>, VP8 \o LEMax,
      ALPH \o LE0, VP8L \o LE0, ANIM \o LE0, ANMF \o LE0,
      JUNK \o LE0, JUNK \o LE4 \o VP8, JUNK \o LE5 \o ALPH \o <<7>> \o <<0>>,
      JUNK \o LEMax }

RECURSIVE Bodies(_)
Bodies(k) ==
    IF k = 0 THEN { <<>> }
    ELSE LET prev == Bodies(k - 1)
         IN  prev \cup { b \o c : b \in prev, c \in ChunkVariants }

Trunc(s, cut) == SubSeq(s, 1, Max(0, Len(s) - cut))

Streams == { Trunc(e \o b, cut) : e \in Envelopes, b \in Bodies(MaxChunks), cut \in 0 .. MaxCut }

\* the few streams under which the decoded frame's readers are explored
FrameStreams ==
    { RIFF \o LE0 \o WEBP \o VP8 \o LE2 \o <<11, 12>>,
      RIFF \o LE0 \o WEBP \o JUNK \o LE5 \o ALPH \o <<7>> \o <<0>> \o VP8 \o LE0,
      RIFF \o LE0 \o WEBP \o ALPH \o LE0,
      RIFF \o LE0 \o WEBP \o JUNK \o LEMax }

Zeros(k) == [i \in 1 .. k |-> 0]

\* -------------------------------------------------------------------- state
VARIABLES
    r,                \* WebPDecoder.r: [inner: the bytes, pos: how many were read]
    frame,            \* WebPDecoder.frame
    have_frame,       \* WebPDecoder.have_frame
    overflow_checks,  \* the build: TRUE with arithmetic overflow checks
    pc,               \* where control is
    ret,              \* what the last finished call returned
    chunk,            \* read_vp8_header: the tag read last
    chunk_at,         \* ... and the offset it was read at
    len,              \* read_vp8_header: `len` of the last iteration
    framedata,        \* read_frame: the bytes given to the VP8 decoder
    vp8_calls,        \* how often decode_frame was invoked
    buf,              \* the caller's buffer of the last read_image / read / read_to_end
    nread,            \* the count the last read / read_to_end returned
    cursor,           \* WebpReader.0: [inner, pos]
    ref_cursor,       \* the always-copy reader: a plain cursor over the plane
    ref_buf,          \* ... the caller's buffer after its call
    ref_nread         \* ... and the count it returned

decoder_vars == <<r, frame, have_frame, chunk, chunk_at, len, framedata, vp8_calls>>
reader_vars == <<buf, nread, cursor, ref_cursor, ref_buf, ref_nread>>
vars == <<r, frame, have_frame, overflow_checks, pc, ret, chunk, chunk_at, len,
          framedata, vp8_calls, buf, nread, cursor, ref_cursor, ref_buf, ref_nread>>

InitOn(streams) ==
    /\ r \in { [inner |-> s, pos |-> 0] : s \in streams }
    /\ overflow_checks \in BOOLEAN
    /\ frame = DefaultFrame
    /\ have_frame = FALSE
    /\ pc = "start"
    /\ ret = "none"
    /\ chunk = <<>>
    /\ chunk_at = 0
    /\ len = U32Zero
    /\ framedata = <<>>
    /\ vp8_calls = 0
    /\ buf = <<>>
    /\ nread = 0
    /\ cursor = [inner |-> <<>>, pos |-> 0]
    /\ ref_cursor = [inner |-> <<>>, pos |-> 0]
    /\ ref_buf = <<>>
    /\ ref_nread = 0

Init == InitOn(FrameStreams)
InitWalk == InitOn(Streams)

\* ------------------------------------------------------------------ actions
\* WebPDecoder::new: the decoder is built with no frame and read_metadata is called
new ==
    /\ pc = "start"
    /\ frame' = DefaultFrame
    /\ have_frame' = FALSE
    /\ pc' = "read_metadata"
    /\ UNCHANGED <<r, overflow_checks, ret, chunk, chunk_at, len, framedata, vp8_calls>>
    /\ UNCHANGED reader_vars

\* read_metadata, entered from new or called again on the decoder new returned
read_metadata ==
    /\ pc \in {"read_metadata", "ready"}
    /\ IF NeedsMetadata(have_frame)
       THEN pc' = "read_riff_header" /\ ret' = ret
       ELSE pc' = "ready" /\ ret' = "Ok(())"
    /\ UNCHANGED <<overflow_checks>>
    /\ UNCHANGED decoder_vars
    /\ UNCHANGED reader_vars

read_riff_header ==
    /\ pc = "read_riff_header"
    /\ LET h == ReadRiffHeader(r)
       IN  /\ r' = h.r
           /\ IF h.err = ""
              THEN pc' = "read_vp8_header" /\ ret' = ret
              ELSE pc' = "failed" /\ ret' = h.err
    /\ UNCHANGED <<frame, have_frame, overflow_checks, chunk, chunk_at, len, framedata, vp8_calls>>
    /\ UNCHANGED reader_vars

\* one iteration of read_vp8_header's loop
read_vp8_header ==
    /\ pc = "read_vp8_header"
    /\ LET s == Vp8HeaderStep(r, overflow_checks)
       IN  /\ r' = s.r
           /\ chunk' = s.chunk
           /\ chunk_at' = r.pos
           /\ len' = s.len
           /\ pc' = CASE s.kind = "return" -> "read_frame"
                      [] s.kind = "continue" -> "read_vp8_header"
                      [] s.kind = "err" -> "failed"
                      [] OTHER -> "panicked"
           /\ ret' = IF s.kind \in {"err", "panic"} THEN s.err ELSE ret
    /\ UNCHANGED <<frame, have_frame, overflow_checks, framedata, vp8_calls>>
    /\ UNCHANGED reader_vars

\* read_frame, and read_metadata's `self.have_frame = true` after it; new then
\* returns the decoder
read_frame ==
    /\ pc = "read_frame"
    /\ LET f == ReadFrame(r, len)
       IN  /\ r' = f.r
           /\ framedata' = f.framedata
           /\ vp8_calls' = vp8_calls + 1
           /\ \E d \in DecodeFrame(f.framedata) :
                IF d.ok
                THEN frame' = d.frame /\ have_frame' = TRUE /\ pc' = "ready"
                     /\ ret' = "Ok(decoder)"
                ELSE frame' = frame /\ have_frame' = have_frame /\ pc' = "failed"
                     /\ ret' = Vp8Failed
    /\ UNCHANGED <<overflow_checks, chunk, chunk_at, len>>
    /\ UNCHANGED reader_vars

\* ImageDecoder::read_image on the decoder new returned; it consumes the decoder
read_image ==
    /\ pc = "ready"
    /\ \E k \in 0 .. MaxBuf :
         LET o == ReadImage(frame, Zeros(k))
         IN  /\ buf' = o.buf
             /\ ret' = o.ret
             /\ pc' = IF o.ret = "Ok(())" THEN "read_image" ELSE "panicked"
    /\ UNCHANGED <<overflow_checks, nread, cursor, ref_cursor, ref_buf, ref_nread>>
    /\ UNCHANGED decoder_vars

\* ImageDecoder::into_reader: the plane moves into a cursor.  Beside it the
\* reference reader starts, a plain cursor over the same plane.
into_reader ==
    /\ pc = "ready"
    /\ cursor' = [inner |-> frame.ybuf, pos |-> 0]
    /\ ref_cursor' = [inner |-> frame.ybuf, pos |-> 0]
    /\ pc' = "reader"
    /\ ret' = "Ok(reader)"
    /\ UNCHANGED <<overflow_checks, buf, nread, ref_buf, ref_nread>>
    /\ UNCHANGED decoder_vars

\* WebpReader::read into a slice of k bytes
read ==
    /\ pc = "reader"
    /\ \E k \in 0 .. MaxRead :
         LET o == CursorRead(cursor, Zeros(k))
             ref == CursorRead(ref_cursor, Zeros(k))
         IN  /\ cursor' = o.c /\ buf' = o.buf /\ nread' = o.n
             /\ ref_cursor' = ref.c /\ ref_buf' = ref.buf /\ ref_nread' = ref.n
    /\ ret' = "Ok(n)"
    /\ UNCHANGED <<overflow_checks, pc>>
    /\ UNCHANGED decoder_vars

\* WebpReader::read_to_end into an empty vector, a vector holding a byte, or the
\* vector of the call before
read_to_end ==
    /\ pc = "reader"
    /\ \E vec \in {<<>>, <<9>>, buf} :
         LET o == WebpReadToEnd(cursor, vec)
             ref == CursorReadToEnd(ref_cursor, vec)
         IN  /\ cursor' = o.c /\ buf' = o.buf /\ nread' = o.n
             /\ ref_cursor' = ref.c /\ ref_buf' = ref.buf /\ ref_nread' = ref.n
    /\ ret' = "Ok(n)"
    /\ UNCHANGED <<overflow_checks, pc>>
    /\ UNCHANGED decoder_vars

NextWalk ==
    \/ new
    \/ read_metadata
    \/ read_riff_header
    \/ read_vp8_header
    \/ read_frame

Next ==
    \/ new
    \/ read_metadata
    \/ read_riff_header
    \/ read_vp8_header
    \/ read_frame
    \/ read_image
    \/ into_reader
    \/ read
    \/ read_to_end

Spec == Init /\ [][Next]_vars
SpecWalk == InitWalk /\ [][NextWalk]_vars

\* ------------------------------------------------- the file format, for the claims
\* What the wire format says of a stream, read off the bytes alone.
FeatureTags == { ALPH, VP8L, ANIM, ANMF }
FirstFour(s) == SubSeq(s, 1, Min(4, Len(s)))
ValidEnvelope(s) == Len(s) >= 12 /\ SubSeq(s, 1, 4) = RIFF /\ SubSeq(s, 9, 12) = WEBP
TagAt(s, off) == SubSeq(s, off + 1, off + 4)
LengthAt(s, off) == FromLE(SubSeq(s, off + 5, off + 8))
\* a chunk's extent: 8 header bytes, the payload, a pad byte after an odd payload
Extent(l) == 8 + l.lo + (l.lo % 2)

\* a chunk with its header, payload and pad all in the stream
FullyPresent(s, off) ==
    /\ off + 8 <= Len(s)
    /\ LengthAt(s, off).hi = 0
    /\ off + Extent(LengthAt(s, off)) <= Len(s)

\* The offsets of the chunks from `off` on, up to and including a "VP8 " chunk
\* reached over fully present ignorable chunks; {-1} joins when none is reached.
RECURSIVE ChunkStarts(_, _)
ChunkStarts(s, off) ==
    IF off + 8 > Len(s) THEN { -1 }
    ELSE IF TagAt(s, off) = VP8 THEN { off }
    ELSE IF TagAt(s, off) \in FeatureTags \/ ~FullyPresent(s, off) THEN { -1 }
    ELSE { off } \cup ChunkStarts(s, off + Extent(LengthAt(s, off)))

\* the stream is a valid envelope, fully present ignorable chunks, a "VP8 " chunk
ReachesPayload(s) == ValidEnvelope(s) /\ -1 \notin ChunkStarts(s, 12)
PayloadOffset(s) == CHOOSE o \in ChunkStarts(s, 12) : \A x \in ChunkStarts(s, 12) : x <= o

\* From `off` on the stream holds only ignorable chunks, each with its full
\* header; the last may declare more bytes than remain.
RECURSIVE OnlyIgnorableFrom(_, _)
OnlyIgnorableFrom(s, off) ==
    IF off = Len(s) THEN TRUE
    ELSE IF off + 8 > Len(s) THEN FALSE
    ELSE /\ TagAt(s, off) \notin (FeatureTags \cup { VP8 })
         /\ IF ~FullyPresent(s, off) \/ off + Extent(LengthAt(s, off)) = Len(s)
            THEN TRUE
            ELSE OnlyIgnorableFrom(s, off + Extent(LengthAt(s, off)))

\* length + (length mod 2) as a number, in limbs
ExactRoundUp(l) ==
    IF l.lo % 2 = 0 THEN [lo |-> l.lo, hi |-> l.hi, top |-> 0]
    ELSE IF l.lo + 1 < LimbBase THEN [lo |-> l.lo + 1, hi |-> l.hi, top |-> 0]
    ELSE IF l.hi + 1 < LimbBase THEN [lo |-> 0, hi |-> l.hi + 1, top |-> 0]
    ELSE [lo |-> 0, hi |-> 0, top |-> 1]

Constructing == pc \in {"start", "read_metadata", "read_riff_header", "read_vp8_header", "read_frame"}
EnvelopeRead == pc \notin {"start", "read_metadata", "read_riff_header"}

\* --------------------------------------------------------------------- claims
\* C1: a stream whose first four bytes are not "RIFF" makes construction fail
\* with the invalid-signature decoding error, whatever its length, with
\* have_frame false and no frame stored.
C1_WrongMagicIsMalformedEnvelope ==
    (EnvelopeRead /\ Len(r.inner) >= 4 /\ FirstFour(r.inner) # RIFF)
        => (pc = "failed" /\ ret = InvalidRiff /\ ~have_frame /\ frame = DefaultFrame)

\* C2: when the source ends inside the envelope (outer tag, size, format tag),
\* read_riff_header fails with the I/O error and never with a signature error;
\* so for "RIFF", four size bytes and fewer than four more bytes.
C2_ShortEnvelopeIsIoTruncated ==
    (EnvelopeRead /\ Len(r.inner) < 12 /\ (Len(r.inner) >= 4 => FirstFour(r.inner) = RIFF))
        => (pc = "failed" /\ ret = IoError)

\* C3: once the walker has read one of the tags ALPH, VP8L, ANIM, ANMF the
\* construction has failed with the unsupported-feature error: nothing was read
\* past the tag, the VP8 decoder was not invoked, no frame is stored.
C3_FeatureTagIsTerminal ==
    (chunk \in FeatureTags)
        => /\ pc = "failed"
           /\ ret = Unsupported
           /\ r.pos = chunk_at + 4
           /\ vp8_calls = 0
           /\ ~have_frame
           /\ frame = DefaultFrame

C3_Witness ==
    /\ chunk = ANMF
    /\ ret = Unsupported
    /\ chunk_at > 12
    /\ r.pos = Len(r.inner)

\* C4: on a valid envelope followed only by ignorable chunks (the last may
\* declare more bytes than remain) the walk ends in the I/O error: it returns no
\* payload length, reports no success and does not abort otherwise.
C4_OnlyIgnorableIsIoTruncated ==
    (ValidEnvelope(r.inner) /\ OnlyIgnorableFrom(r.inner, 12))
        => /\ pc \in {"start", "read_metadata", "read_riff_header", "read_vp8_header", "failed"}
           /\ (pc = "failed" => ret = IoError)

C6_ShortPayloadIsIoTruncated ==
    (chunk = VP8 /\ ~Constructing)
        => IF len.hi > 0 \/ len.lo > Len(r.inner) - (chunk_at + 8)
           THEN pc = "failed" /\ ret = IoError /\ vp8_calls = 0
           ELSE vp8_calls > 0 => Len(framedata) = len.lo

\* C7: have_frame is true only when the envelope check, the walk and the decode
\* have all succeeded, a failure leaves it false, and once it is true no step
\* reads from the source, invokes the VP8 decoder or changes the frame, and
\* read_metadata returns success.
C7_MetadataIsIdempotent ==
    /\ [](have_frame => /\ pc = "ready"
                        /\ ret \in {"Ok(decoder)", "Ok(())"}
                        /\ ValidEnvelope(r.inner)
                        /\ chunk = VP8
                        /\ vp8_calls = 1
                        /\ frame \in Frames)
    /\ [](pc \in {"failed", "panicked"} => ~have_frame /\ frame = DefaultFrame)
    /\ [][have_frame => /\ have_frame'
                        /\ r' = r
                        /\ frame' = frame
                        /\ framedata' = framedata
                        /\ vp8_calls' = vp8_calls
                        /\ ret' = "Ok(())"]_vars

C7_Witness ==
    /\ have_frame
    /\ ret = "Ok(())"
    /\ Remaining(r) > 0

\* C8: for a decoded frame total_bytes is width * height; read_image with a
\* buffer of that length succeeds and leaves the plane in it; with any other
\* length it panics on its assertion and the buffer is as it was.
C8_ReadImageCopiesThePlane ==
    /\ (have_frame => TotalBytes(frame) = frame.width * frame.height)
    /\ (pc = "read_image"
          => ret = "Ok(())" /\ buf = frame.ybuf /\ Len(buf) = frame.width * frame.height)
    /\ (pc = "panicked" /\ have_frame
          => /\ ret = AssertPanic
             /\ Len(buf) # frame.width * frame.height
             /\ buf = Zeros(Len(buf)))

C8_Witness ==
    /\ pc = "read_image"
    /\ Dimensions(frame) = <<2, 2>>
    /\ buf = <<128, 128, 128, 128>>

\* C9: after every read and read_to_end call the WebpReader has returned the
\* count and the bytes a plain forward-only cursor over the plane returns for
\* the same calls, and has the same bytes left to deliver.
C9_ReaderMatchesAlwaysCopy ==
    pc = "reader"
        => /\ nread = ref_nread
           /\ buf = ref_buf
           /\ SubSeq(cursor.inner, cursor.pos + 1, Len(cursor.inner))
                = SubSeq(ref_cursor.inner, ref_cursor.pos + 1, Len(ref_cursor.inner))

C9_Witness ==
    /\ pc = "reader"
    /\ nread = 4
    /\ buf = <<128, 128, 128, 128>>
    /\ cursor.inner = <<>>
    /\ ref_cursor.pos = 4

\* C10: for every declared length of an ignorable chunk, 2^32 - 1 included, the
\* count the walker asks to discard is length + (length mod 2) as a number, and
\* computing it does not panic.
C10_RoundUpIsExact ==
    (chunk_at >= 12 /\ chunk_at + 8 <= Len(r.inner) /\ chunk \notin (FeatureTags \cup { VP8 }))
        => /\ pc # "panicked"
           /\ AsU64(len) = ExactRoundUp(LengthAt(r.inner, chunk_at))

====
